---------------------------- MODULE Spec2Model ----------------------------
(***************************************************************************)
(* CameraControlEnv (src/rl_utils/CameraEnviroment.py): a pan/tilt camera  *)
(* environment.  The environment object's fields are the variables, and    *)
(* reset(), step(action) and render() are the actions.  Rewards and errors *)
(* are Python floats (IEEE-754 binary64); they are modelled bit for bit    *)
(* with round-to-nearest-even arithmetic on 53-bit significands.           *)
(***************************************************************************)
EXTENDS Integers, Sequences, FiniteSets, TLC

(***************************************************************************)
(* Natural numbers of any size, as sequences of 14-bit limbs, least        *)
(* significant first, without high zero limbs (<<>> is 0).  TLC's integers *)
(* are 32 bits wide and cannot hold a 53-bit significand or the 106-bit    *)
(* product of two; a product of two limbs and a column of four fit.        *)
(***************************************************************************)
LimbBits == 14

Base == 2 ^ LimbBits

Max(x, y) == IF x >= y THEN x ELSE y

Min(x, y) == IF x <= y THEN x ELSE y

Limb(a, i) == IF i >= 1 /\ i <= Len(a) THEN a[i] ELSE 0

\* drop high zero limbs
Norm(a) ==
    LET nz == {i \in 1..Len(a) : a[i] # 0}
    IN  IF nz = {} THEN <<>>
        ELSE SubSeq(a, 1, CHOOSE i \in nz : \A j \in nz : j <= i)

\* limbs of any size to limbs below Base, carrying upward
RECURSIVE CarryFrom(_, _, _)
CarryFrom(a, i, c) ==
    IF i > Len(a) /\ c = 0 THEN <<>>
    ELSE LET s == Limb(a, i) + c
         IN  <<s % Base>> \o CarryFrom(a, i + 1, s \div Base)

Carry(a) == Norm(CarryFrom(a, 1, 0))

BAdd(a, b) == Carry([i \in 1..Max(Len(a), Len(b)) |-> Limb(a, i) + Limb(b, i)])

RECURSIVE SubFrom(_, _, _, _)
SubFrom(a, b, i, c) ==
    IF i > Len(a) THEN <<>>
    ELSE LET s == a[i] - Limb(b, i) - c
         IN  <<(s + Base) % Base>> \o SubFrom(a, b, i + 1, IF s < 0 THEN 1 ELSE 0)

\* a - b for a >= b
BSub(a, b) == Norm(SubFrom(a, b, 1, 0))

\* -1, 0 or 1 as a < b, a = b, a > b
BCmp(a, b) ==
    LET d == {i \in 1..Max(Len(a), Len(b)) : Limb(a, i) # Limb(b, i)}
        t == CHOOSE i \in d : \A j \in d : j <= i
    IN  IF d = {} THEN 0 ELSE IF Limb(a, t) > Limb(b, t) THEN 1 ELSE -1

RECURSIVE Column(_, _, _, _)
Column(a, b, k, i) ==
    IF i > Len(a) THEN 0
    ELSE Limb(a, i) * Limb(b, k + 1 - i) + Column(a, b, k, i + 1)

BMul(a, b) == Carry([k \in 1..(Len(a) + Len(b)) |-> Column(a, b, k, 1)])

\* a * 2^s
BShl(a, s) ==
    IF a = <<>> THEN <<>>
    ELSE [i \in 1..(s \div LimbBits) |-> 0]
         \o Carry([i \in 1..Len(a) |-> a[i] * 2 ^ (s % LimbBits)])

\* floor(a / 2^s)
BShr(a, s) ==
    LET q == s \div LimbBits
        r == s % LimbBits
    IN  Norm([i \in 1..Max(Len(a) - q, 0) |->
                 (Limb(a, i + q) \div 2 ^ r)
                 + (Limb(a, i + q + 1) % 2 ^ r) * 2 ^ (LimbBits - r)])

\* a mod 2^s = 0
LowZero(a, s) ==
    /\ \A i \in 1..(s \div LimbBits) : Limb(a, i) = 0
    /\ Limb(a, s \div LimbBits + 1) % 2 ^ (s % LimbBits) = 0

\* bit k of a (bit 0 is the lowest)
BitAt(a, k) == (Limb(a, k \div LimbBits + 1) \div 2 ^ (k % LimbBits)) % 2

\* the number of bits of a
BitLen(a) ==
    IF a = <<>> THEN 0
    ELSE LimbBits * (Len(a) - 1)
         + CHOOSE w \in 1..LimbBits : 2 ^ (w - 1) <= a[Len(a)] /\ a[Len(a)] < 2 ^ w

\* a natural below Base^2 as a number of limbs
NatLimbs(n) == Norm(<<n % Base, n \div Base>>)

(***************************************************************************)
(* binary64 values.  A float is [neg, e, m]: the value (-1)^neg * m * 2^e  *)
(* with a 53-bit significand 2^52 <= m < 2^53 (four limbs), or the zero    *)
(* FZero.  The values of this program stay within [2^-60, 4], far from     *)
(* overflow and from subnormals, which are therefore not modelled.         *)
(***************************************************************************)
Precision == 53

FZero == [neg |-> FALSE, e |-> 0, m |-> <<>>]

IsZero(x) == x.m = <<>>

\* Round (-1)^neg * n * 2^e (plus a nonzero tail below the last bit of n when
\* sticky) to the nearest float, ties to even.
Round(neg, n, e, sticky) ==
    LET len == BitLen(n)
    IN  IF n = <<>> THEN FZero
        ELSE IF len <= Precision
        THEN [neg |-> neg, e |-> e - (Precision - len), m |-> BShl(n, Precision - len)]
        ELSE LET drop  == len - Precision
                 keep  == BShr(n, drop)
                 half  == BitAt(n, drop - 1) = 1
                 tail  == sticky \/ ~LowZero(n, drop - 1)
                 up    == half /\ (tail \/ BitAt(keep, 0) = 1)
                 m0    == IF up THEN BAdd(keep, <<1>>) ELSE keep
                 carry == BitLen(m0) > Precision
             IN  [neg |-> neg, e |-> e + drop + (IF carry THEN 1 ELSE 0),
                  m |-> IF carry THEN BShr(m0, 1) ELSE m0]

\* float(n) of an int, exact for |n| < 2^28
FromInt(n) == IF n < 0 THEN Round(TRUE, NatLimbs(-n), 0, FALSE)
              ELSE Round(FALSE, NatLimbs(n), 0, FALSE)

FNeg(x) == IF IsZero(x) THEN x ELSE [x EXCEPT !.neg = ~x.neg]

\* compare magnitudes: -1, 0, 1
MagCmp(x, y) ==
    IF IsZero(x) \/ IsZero(y)
    THEN (IF IsZero(x) /\ IsZero(y) THEN 0 ELSE IF IsZero(x) THEN -1 ELSE 1)
    ELSE IF x.e # y.e THEN (IF x.e > y.e THEN 1 ELSE -1)
    ELSE BCmp(x.m, y.m)

\* x < y
FLess(x, y) ==
    IF IsZero(x) /\ IsZero(y) THEN FALSE
    ELSE IF IsZero(x) THEN ~y.neg
    ELSE IF IsZero(y) THEN x.neg
    ELSE IF x.neg # y.neg THEN x.neg
    ELSE IF x.neg THEN MagCmp(x, y) = 1
    ELSE MagCmp(x, y) = -1

FLeq(x, y) == ~FLess(y, x)

\* x + y, correctly rounded
FAdd(x, y) ==
    IF IsZero(x) THEN y
    ELSE IF IsZero(y) THEN x
    ELSE LET e  == Min(x.e, y.e)
             a  == BShl(x.m, x.e - e)
             b  == BShl(y.m, y.e - e)
             c  == BCmp(a, b)
         IN  IF x.neg = y.neg THEN Round(x.neg, BAdd(a, b), e, FALSE)
             ELSE IF c = 0 THEN FZero
             ELSE IF c > 0 THEN Round(x.neg, BSub(a, b), e, FALSE)
             ELSE Round(y.neg, BSub(b, a), e, FALSE)

FSub(x, y) == FAdd(x, FNeg(y))

\* x * y, correctly rounded
FMul(x, y) ==
    IF IsZero(x) \/ IsZero(y) THEN FZero
    ELSE Round(x.neg # y.neg, BMul(x.m, y.m), x.e + y.e, FALSE)

\* Long division in radix 2^4, k digits after the point:
\* q = floor(x * 2^(4k) / d) and r = x * 2^(4k) mod d, for x < 2 * d
RECURSIVE DivSteps(_, _, _)
DivSteps(x, d, k) ==
    IF k = 0
    THEN (IF BCmp(x, d) >= 0 THEN [q |-> <<1>>, r |-> BSub(x, d)]
                             ELSE [q |-> <<>>, r |-> x])
    ELSE LET p == DivSteps(x, d, k - 1)
             r == BShl(p.r, 4)
             g == CHOOSE g \in 0..15 :
                     /\ BCmp(BMul(d, NatLimbs(g)), r) <= 0
                     /\ BCmp(BMul(d, NatLimbs(g + 1)), r) > 0
         IN  IF p.r = <<>> THEN [q |-> BShl(p.q, 4), r |-> <<>>]
             ELSE [q |-> BAdd(BShl(p.q, 4), NatLimbs(g)),
                   r |-> BSub(r, BMul(d, NatLimbs(g)))]

\* x / y, correctly rounded (y # 0): the quotient of the significands, which
\* lies in (1/2, 2), is taken to 56 fraction bits (Precision + 3) and the
\* remainder is the sticky tail
FDiv(x, y) ==
    IF IsZero(x) THEN FZero
    ELSE LET d == DivSteps(x.m, y.m, 14)
         IN  Round(x.neg # y.neg, d.q, x.e - y.e - 56, d.r # <<>>)

\* the float a decimal literal num/den denotes (the nearest float)
Lit(num, den) == FDiv(FromInt(num), FromInt(den))

(***************************************************************************)
(* The environment's constants.                                            *)
(***************************************************************************)
\* self.tilts and self.pans; Python indexes them from 0
tilts == <<-60, -30, -15, 0, 15, 30, 60>>

pans == <<-90, -75, -60, -45, -30, -15, 0, 15, 30, 45, 60, 75, 90>>

\* s[i] of a Python list: a negative index counts from the end
PyIndex(s, i) == IF i < 0 THEN s[Len(s) + i + 1] ELSE s[i + 1]

TiltAt(i) == PyIndex(tilts, i)

PanAt(i) == PyIndex(pans, i)

\* np.max(np.abs(self.tilts)), np.max(np.abs(self.pans))
MaxAbs(s) ==
    LET abs == {IF s[i] < 0 THEN -s[i] ELSE s[i] : i \in 1..Len(s)}
    IN  CHOOSE v \in abs : \A w \in abs : w <= v

mean_vector == <<109, 114, 131>>

\* np.random.randint(0, 20) and np.random.randint(20, 30)
\* the training pool with the upper end of randint(0, 20) included
TrainPoolInclusive == 0..20

TrainPool == 0..19

TestPool == 20..29

Pool(t) == IF t THEN TestPool ELSE TrainPool

(***************************************************************************)
(* Bounds of the model.                                                    *)
(***************************************************************************)
\* resets that complete in one run
MaxEpochs == 2

\* steps that complete in one episode
MaxIter == 3

\* the same two bounds for a run that starts anywhere on the grid
GridEpochs == 1

GridIter == 4

\* persons a draw ranges over: the lowest MaxPersons - 1 of the pool and its
\* highest
MaxPersons == 2

PersonsDrawn(t) ==
    {p \in Pool(t) : p - (CHOOSE q \in Pool(t) : \A r \in Pool(t) : q <= r) < MaxPersons - 1
                     \/ \A r \in Pool(t) : r <= p}

\* every cell of the grid, as a pair of indices
GridCells == (0..(Len(tilts) - 1)) \X (0..(Len(pans) - 1))

\* the cells the resets of a run of several episodes are drawn from: two
\* opposite corners and the centre
SampleCells == {<<0, 0>>, <<3, 6>>, <<6, 12>>}

\* actions offered to step(): the five valid ones and one that is not
Actions == 0..5

(***************************************************************************)
(* The dataset, self.persons[person][(tilt, pan)]: a pair of images, here  *)
(* one RGB pixel each, different for every key.                            *)
(***************************************************************************)
Image(person, tilt, pan) ==
    [obs    |-> <<person, tilt + 60, pan + 90>>,
     render |-> <<pan + 90, tilt + 60, 255 - person>>]

\* self.observation - self.mean_vector (numpy broadcasts over the pixels)
Centre(img) == [i \in 1..3 |-> img[i] - mean_vector[i]]

(***************************************************************************)
(* str(int) and the texts.                                                 *)
(***************************************************************************)
DigitChar == <<"0", "1", "2", "3", "4", "5", "6", "7", "8", "9">>

RECURSIVE Digits(_)
Digits(n) == IF n < 10 THEN <<DigitChar[n + 1]>>
             ELSE Digits(n \div 10) \o <<DigitChar[(n % 10) + 1]>>

Str(n) == IF n < 0 THEN <<"-">> \o Digits(-n) ELSE Digits(n)

StateText(ti, pi) == Str(TiltAt(ti)) \o <<"/">> \o Str(PanAt(pi))

ActionText(a) ==
    CASE a = 0 -> "Stay" [] a = 1 -> "Up" [] a = 2 -> "Down"
      [] a = 3 -> "Left" [] a = 4 -> "Right"

(***************************************************************************)
(* Error and reward, lines 147-162.                                        *)
(***************************************************************************)
F2 == FromInt(2)

F095 == Lit(95, 100)

F005 == Lit(5, 100)

F01 == Lit(1, 10)

FNeg015 == Lit(-15, 100)

\* x ** 2
Sq(x) == FMul(x, x)

\* Error without the tilt term
ErrorPanOnly(tilt, pan) == Sq(FDiv(FromInt(pan), FromInt(MaxAbs(pans))))

\* (float(tilt) / max|tilts|) ** 2 + (float(pan) / max|pans|) ** 2
Error(tilt, pan) ==
    FAdd(Sq(FDiv(FromInt(tilt), FromInt(MaxAbs(tilts)))),
         Sq(FDiv(FromInt(pan), FromInt(MaxAbs(pans)))))

\* reward = (2 - error) / 2.0
Raw(error) == FDiv(FSub(F2, error), F2)

\* Threshold without the cut at 0.95
ThresholdNoCut(raw) == FDiv(FSub(raw, F095), F005)

\* if reward < 0.95: reward = 0, else: reward = (reward - 0.95) / 0.05
Threshold(raw) == IF FLess(raw, F095) THEN FZero ELSE FDiv(FSub(raw, F095), F005)

\* The error and the reward before shaping of every cell, computed once.
Angles == {<<TiltAt(c[1]), PanAt(c[2])>> : c \in GridCells}

ErrorOf == [a \in Angles |-> Error(a[1], a[2])]

RawOf == [a \in Angles |-> Raw(ErrorOf[a])]

BaseRewardOf == [a \in Angles |-> Threshold(RawOf[a])]

\* Shaped with the two amounts exchanged
ShapedAmountsSwapped(reward, mem) ==
    IF Len(mem) > 2 /\ FLess(mem[Len(mem)], mem[Len(mem) - 1])
    THEN FAdd(reward, FNeg(FNeg015))
    ELSE IF Len(mem) > 2 /\ FLess(mem[Len(mem) - 1], mem[Len(mem)])
    THEN FAdd(reward, FNeg(F01))
    ELSE reward

\* Shaped from the second step of an episode on
ShapedFromSecond(reward, mem) ==
    IF Len(mem) > 1 /\ FLess(mem[Len(mem)], mem[Len(mem) - 1]) THEN FAdd(reward, F01)
    ELSE IF Len(mem) > 1 /\ FLess(mem[Len(mem) - 1], mem[Len(mem)]) THEN FAdd(reward, FNeg015)
    ELSE reward

\* Shaped without the branch that rewards an improvement
ShapedPenaltyOnly(reward, mem) ==
    IF Len(mem) > 2 /\ FLess(mem[Len(mem) - 1], mem[Len(mem)]) THEN FAdd(reward, FNeg015)
    ELSE reward

\* Shaped with the penalty also charged when the error did not change
ShapedTiePenalised(reward, mem) ==
    IF Len(mem) > 2 /\ FLess(mem[Len(mem)], mem[Len(mem) - 1]) THEN FAdd(reward, F01)
    ELSE IF Len(mem) > 2 /\ FLeq(mem[Len(mem) - 1], mem[Len(mem)]) THEN FAdd(reward, FNeg015)
    ELSE reward

\* the shaping of lines 158-162 on the error sequence after the append
Shaped(reward, mem) ==
    IF Len(mem) > 2 /\ FLess(mem[Len(mem)], mem[Len(mem) - 1]) THEN FAdd(reward, F01)
    ELSE IF Len(mem) > 2 /\ FLess(mem[Len(mem) - 1], mem[Len(mem)]) THEN FAdd(reward, FNeg015)
    ELSE reward

(***************************************************************************)
(* The state: the fields of the environment object, the keys the loaded    *)
(* dataset lacks, the two windows render() shows, and the outcome of the   *)
(* last call.                                                              *)
(***************************************************************************)
VARIABLES absent, testing, interactive, current_tilt, current_pan,
          current_person, error_memory, observation, render_observation,
          epoch_counter, iteration_counter, init_pan_error, init_tilt_error,
          final_pan_error, final_tilt_error, current_state_text, action_text,
          display, result

\* the fields reset() and step() write
env == <<current_tilt, current_pan, current_person, error_memory, observation,
         render_observation, epoch_counter, iteration_counter, init_pan_error,
         init_tilt_error, final_pan_error, final_tilt_error, current_state_text,
         action_text>>

\* what the constructor fixes for the life of the object
params == <<absent, testing, interactive>>

vars == <<params, env, display, result>>

\* no window shown yet
NoDisplay == <<>>

\* __init__ on a dataset that lacks the keys of one of datasets, with
\* interactive drawn from modes
Construct(datasets, modes) ==
    /\ absent \in datasets
    /\ testing \in BOOLEAN
    /\ interactive \in modes
    /\ display = NoDisplay
    /\ current_tilt = 0
    /\ current_pan = 0
    /\ current_person \in PersonsDrawn(testing)
    /\ error_memory = <<>>
    /\ observation = <<0, 0, 0>>
    /\ render_observation = <<0, 0, 0>>
    /\ epoch_counter = -1
    /\ iteration_counter = 0
    /\ init_pan_error = <<>>
    /\ init_tilt_error = <<>>
    /\ final_pan_error = <<>>
    /\ final_tilt_error = <<>>
    /\ current_state_text = StateText(0, 0)
    /\ action_text = "None"
    /\ result = [op |-> "init"]

\* __init__ with interactive left at its default, on a dataset that covers
\* every person and cell
Init == Construct({{}}, {FALSE})

\* Observe without the subtraction of the mean vector
ObserveUncentred(person, tilt, pan) == Image(person, tilt, pan).obs

\* self.observation of lines 84-85 and 144-145
Observe(person, tilt, pan) == Centre(Image(person, tilt, pan).obs)

\* A lookup that answers every key instead of raising
MissingNever(key) == FALSE

\* self.persons[person][(tilt, pan)] raises KeyError
Missing(key) == key \in absent

\* reset() drawing its cell from cells, while fewer than epochs resets completed
ResetOver(cells, epochs) ==
    /\ epoch_counter + 1 < epochs
    /\ \E p \in PersonsDrawn(testing), c \in cells :
         LET tilt == TiltAt(c[1])
             pan  == PanAt(c[2])
         IN  /\ current_person' = p
             /\ error_memory' = <<>>
             /\ current_tilt' = c[1]
             /\ current_pan' = c[2]
             /\ IF Missing(<<p, tilt, pan>>)
                THEN /\ result' = [op |-> "reset", status |-> "KeyError"]
                     /\ UNCHANGED <<observation, render_observation, epoch_counter,
                                    iteration_counter, init_pan_error, init_tilt_error,
                                    final_pan_error, final_tilt_error,
                                    current_state_text, action_text>>
                ELSE /\ observation' = Observe(p, tilt, pan)
                     /\ render_observation' = Image(p, tilt, pan).render
                     /\ epoch_counter' = epoch_counter + 1
                     /\ iteration_counter' = 0
                     /\ init_pan_error' = Append(init_pan_error, pan)
                     /\ init_tilt_error' = Append(init_tilt_error, tilt)
                     /\ final_pan_error' = Append(final_pan_error, pan)
                     /\ final_tilt_error' = Append(final_tilt_error, tilt)
                     /\ current_state_text' = StateText(c[1], c[2])
                     /\ action_text' = "None"
                     /\ result' = [op |-> "reset", status |-> "ok",
                                   observation |-> observation']
    /\ UNCHANGED <<params, display>>

Reset == ResetOver(SampleCells, MaxEpochs)

ResetGrid == ResetOver(GridCells, GridEpochs)

\* Move without the clamp of action 1
MoveNoClamp(a, ti, pi) ==
    CASE a = 0 -> <<ti, pi>>
      [] a = 1 -> <<ti - 1, pi>>
      [] a = 2 -> <<Min(Len(tilts) - 1, ti + 1), pi>>
      [] a = 3 -> <<ti, Max(0, pi - 1)>>
      [] a = 4 -> <<ti, Min(Len(pans) - 1, pi + 1)>>

\* Move that wraps around at the upper end of the tilts
MoveWrap(a, ti, pi) ==
    CASE a = 0 -> <<ti, pi>>
      [] a = 1 -> <<Max(0, ti - 1), pi>>
      [] a = 2 -> <<(ti + 1) % Len(tilts), pi>>
      [] a = 3 -> <<ti, Max(0, pi - 1)>>
      [] a = 4 -> <<ti, Min(Len(pans) - 1, pi + 1)>>

\* Move whose action 2 goes up two positions
MoveTwo(a, ti, pi) ==
    CASE a = 0 -> <<ti, pi>>
      [] a = 1 -> <<Max(0, ti - 1), pi>>
      [] a = 2 -> <<Min(Len(tilts) - 1, ti + 2), pi>>
      [] a = 3 -> <<ti, Max(0, pi - 1)>>
      [] a = 4 -> <<ti, Min(Len(pans) - 1, pi + 1)>>

\* lines 109-118: the indices after a valid action
Move(a, ti, pi) ==
    CASE a = 0 -> <<ti, pi>>
      [] a = 1 -> <<Max(0, ti - 1), pi>>
      [] a = 2 -> <<Min(Len(tilts) - 1, ti + 1), pi>>
      [] a = 3 -> <<ti, Max(0, pi - 1)>>
      [] a = 4 -> <<ti, Min(Len(pans) - 1, pi + 1)>>

\* s[-1] = v on an empty list taken for an append
EmptyNever(s) == FALSE

\* s[-1] = v raises IndexError
Empty(s) == s = <<>>

\* s[0] = v
SetFirst(s, v) == [s EXCEPT ![1] = v]

\* s[-1] = v
SetLast(s, v) == [s EXCEPT ![Len(s)] = v]

\* StepReturn that ends the episode once the reward reaches 1
StepReturnDoneAtCentre(a, obs, reward) ==
    [op |-> "step", status |-> "ok", action |-> a, observation |-> obs,
     reward |-> reward, done |-> FLeq(FromInt(1), reward), info |-> <<>>]

\* line 166
StepReturn(a, obs, reward) ==
    [op |-> "step", status |-> "ok", action |-> a, observation |-> obs,
     reward |-> reward, done |-> FALSE, info |-> <<>>]

\* step(a) for a in 0..4
Perform(a) ==
    LET c    == Move(a, current_tilt, current_pan)
        tilt == TiltAt(c[1])
        pan  == PanAt(c[2])
        mem  == Append(error_memory, ErrorOf[<<tilt, pan>>])
    IN  /\ current_tilt' = c[1]
        /\ current_pan' = c[2]
        /\ current_state_text' = StateText(c[1], c[2])
        /\ action_text' = ActionText(a)
        /\ IF Empty(final_pan_error)
           THEN \* line 141 on the empty list
                /\ result' = [op |-> "step", status |-> "IndexError", action |-> a]
                /\ UNCHANGED <<final_pan_error, final_tilt_error, observation,
                               render_observation, error_memory, iteration_counter>>
           ELSE /\ final_pan_error' = SetLast(final_pan_error, pan)
                /\ final_tilt_error' = SetLast(final_tilt_error, tilt)
                /\ IF Missing(<<current_person, tilt, pan>>)
                   THEN /\ result' = [op |-> "step", status |-> "KeyError", action |-> a]
                        /\ UNCHANGED <<observation, render_observation, error_memory,
                                       iteration_counter>>
                   ELSE /\ observation' = Observe(current_person, tilt, pan)
                        /\ render_observation' = Image(current_person, tilt, pan).render
                        /\ error_memory' = mem
                        /\ iteration_counter' = iteration_counter + 1
                        /\ result' = StepReturn(a, observation',
                                        Shaped(BaseRewardOf[<<tilt, pan>>], mem))
        /\ UNCHANGED <<current_person, epoch_counter, init_pan_error, init_tilt_error>>

\* Reject that fails only after the action text was written
RejectLate(a) ==
    /\ result' = [op |-> "step", status |-> "AssertionError", action |-> a]
    /\ action_text' = "Stay"
    /\ UNCHANGED <<current_tilt, current_pan, current_person, error_memory,
                   observation, render_observation, epoch_counter,
                   iteration_counter, init_pan_error, init_tilt_error,
                   final_pan_error, final_tilt_error, current_state_text>>

\* step(a) for any other a: line 120 raises AssertionError; when the
\* interpreter strips assert statements (python -O) the call goes on to line
\* 137 and fails at line 138, where the local action_text is unbound
Reject(a) ==
    \E exc \in {"AssertionError", "UnboundLocalError"} :
        /\ result' = [op |-> "step", status |-> exc, action |-> a]
        /\ current_state_text' = IF exc = "AssertionError" THEN current_state_text
                                 ELSE StateText(current_tilt, current_pan)
        /\ UNCHANGED <<current_tilt, current_pan, current_person, error_memory,
                       observation, render_observation, epoch_counter,
                       iteration_counter, init_pan_error, init_tilt_error,
                       final_pan_error, final_tilt_error, action_text>>

\* step(a), while fewer than iters steps completed in the episode
StepUpTo(iters) ==
    /\ \E a \in Actions :
         IF a \in 0..4 THEN iteration_counter < iters /\ Perform(a) ELSE Reject(a)
    /\ UNCHANGED <<params, display>>

Step == StepUpTo(MaxIter)

StepGrid == StepUpTo(GridIter)

Next == Reset \/ Step

Spec == Init /\ [][Next]_vars

\* one episode that starts anywhere on the grid
NextGrid == ResetGrid \/ StepGrid

SpecGrid == Init /\ [][NextGrid]_vars

\* np.uint8 of pixel values
Uint8(img) == [i \in 1..Len(img) |-> img[i] % 256]

\* the frame with the two lines cv2.putText draws on it
PutText(img, state_text, act_text) ==
    <<img, <<"Tilt/Pan: ", state_text>>, <<"Sel. Action: ", act_text>>>>

\* the contents of the windows 'View' and 'CNN Input'
Shown ==
    <<PutText(render_observation, current_state_text, action_text),
      Uint8([i \in 1..3 |-> observation[i] + mean_vector[i]])>>

\* render() drawing the text on self.render_observation itself, not on a copy
RenderInPlace ==
    /\ display' = Shown
    /\ render_observation' = [render_observation EXCEPT ![1] = 255]
    /\ result' = [op |-> "render", status |-> "ok",
                  waitKey |-> IF interactive THEN 0 ELSE 1]
    /\ UNCHANGED <<params, current_tilt, current_pan, current_person, error_memory,
                   observation, epoch_counter, iteration_counter, init_pan_error,
                   init_tilt_error, final_pan_error, final_tilt_error,
                   current_state_text, action_text>>

\* render(): shows the two windows, then cv2.waitKey(0) when interactive and
\* cv2.waitKey(1) otherwise
Render ==
    /\ display' = Shown
    /\ result' = [op |-> "render", status |-> "ok",
                  waitKey |-> IF interactive THEN 0 ELSE 1]
    /\ UNCHANGED <<params, env>>

\* bounds of the specification with render()
RenderEpochs == 1

RenderIter == 3

\* __init__ with either value of interactive
InitRender == Construct({{}}, BOOLEAN)

ResetRender == ResetOver(SampleCells, RenderEpochs)

\* the caller resets the environment before it steps and renders
StepRender == epoch_counter >= 0 /\ StepUpTo(RenderIter)

RenderStarted == epoch_counter >= 0 /\ Render

NextRender == ResetRender \/ StepRender \/ RenderStarted

SpecRender == InitRender /\ [][NextRender]_vars

\* the cells of the grid the partial dataset has no image of
MissingCells == {<<0, 1>>, <<3, 6>>}

\* the keys a partial dataset lacks: the missing cells of the first person of
\* each pool
MissingKeys ==
    {<<p, TiltAt(c[1]), PanAt(c[2])>> : p \in {0, 20}, c \in MissingCells}

\* bounds of the specification with a partial dataset
PartialEpochs == 2

PartialIter == 2

\* __init__ on the partial dataset
InitPartial == Construct({MissingKeys}, {FALSE})

ResetPartial == ResetOver(SampleCells, PartialEpochs)

StepPartial == StepUpTo(PartialIter)

NextPartial == ResetPartial \/ StepPartial

SpecPartial == InitPartial /\ [][NextPartial]_vars

(***************************************************************************)
(* The claims.                                                             *)
(***************************************************************************)
\* the last call was a step() that returned
StepOk == result.op = "step" /\ result.status = "ok"

\* the last call was a reset() that returned
ResetOk == result.op = "reset" /\ result.status = "ok"

\* the angles of the current orientation
CurAngles == <<TiltAt(current_tilt), PanAt(current_pan)>>

AtCentre == current_tilt = 3 /\ current_pan = 6

F1 == FromInt(1)

F115 == Lit(115, 100)

\* C1: in every state reachable by reset() and step(a), a in 0..4, the tilt
\* index is within [0, 6] and the pan index within [0, 12].
C1_IndicesInGrid == current_tilt \in 0..6 /\ current_pan \in 0..12

\* a first step of an episode that pushed down at tilt index 0, in the second
\* episode
C1_Witness ==
    /\ StepOk /\ result.action = 1 /\ epoch_counter = 1 /\ iteration_counter = 1
    /\ init_tilt_error[2] = -60 /\ current_tilt = 0

\* C2 as stated: the reward every step() returns is in [0, 1.15].
C2_RewardIn0To115 ==
    StepOk => FLeq(FZero, result.reward) /\ FLeq(result.reward, F115)

\* C2 as amended: the reward every step() returns is in [-0.15, 1.15].
C2_RewardRange ==
    StepOk => FLeq(FNeg015, result.reward) /\ FLeq(result.reward, F115)

\* a step that returned -0.15
C2_Witness == StepOk /\ result.reward = FNeg015

\* the shaping bonus lines 158-162 add after a step, from the error sequence
C3_Bonus ==
    LET n == Len(error_memory)
    IN  IF n > 2 /\ FLess(error_memory[n], error_memory[n - 1]) THEN F01
        ELSE IF n > 2 /\ FLess(error_memory[n - 1], error_memory[n]) THEN FNeg015
        ELSE FZero

\* C3 as stated: if raw < 0.95 for the orientation a step reached, the reward
\* it returned is exactly 0.
C3_ZeroBelowThreshold ==
    StepOk /\ FLess(RawOf[CurAngles], F095) => result.reward = FZero

\* C3 as amended: if raw < 0.95 for the orientation a step reached, the
\* reward before shaping is 0 and the reward returned is the shaping bonus
\* alone: 0 on the first two steps of an episode and on a tie, otherwise 0.1
\* after a strict decrease of the error and -0.15 after a strict increase.
C3_BonusAloneBelowThreshold ==
    StepOk /\ FLess(RawOf[CurAngles], F095) =>
        /\ result.reward = C3_Bonus
        /\ iteration_counter <= 2 => result.reward = FZero

\* a third step below the threshold that returned 0.1
C3_Witness ==
    /\ StepOk /\ FLess(RawOf[CurAngles], F095)
    /\ iteration_counter = 3 /\ result.reward = F01

\* C4: the shaping bonus of a step compares the error of this step with the
\* error of the previous step of the same episode, and only when the error
\* sequence holds at least 3 entries after the append: +0.1 after a strict
\* decrease, -0.15 after a strict increase, nothing on a tie; the first and
\* second step after every reset() get no bonus.
C4_ShapingRule ==
    [][StepOk' =>
         LET prev == ErrorOf[CurAngles]
             cur  == ErrorOf[CurAngles']
             base == BaseRewardOf[CurAngles']
             n    == Len(error_memory')
         IN  /\ n = iteration_counter'
             /\ error_memory'[n] = cur
             /\ n >= 2 => error_memory'[n - 1] = prev
             /\ result'.reward =
                  IF n >= 3 /\ FLess(cur, prev) THEN FAdd(base, F01)
                  ELSE IF n >= 3 /\ FLess(prev, cur) THEN FAdd(base, FNeg015)
                  ELSE base
             /\ iteration_counter' <= 2 => result'.reward = base]_vars

\* the third step of the second episode, after a strict decrease
C4_Witness ==
    /\ StepOk /\ epoch_counter = 1 /\ iteration_counter = 3
    /\ FLess(error_memory[3], error_memory[2])
    /\ result.reward = FAdd(BaseRewardOf[CurAngles], F01)

\* the last three errors of the sequence strictly decrease
C5_Decreasing(mem) ==
    /\ Len(mem) >= 3
    /\ FLess(mem[Len(mem) - 1], mem[Len(mem) - 2])
    /\ FLess(mem[Len(mem)], mem[Len(mem) - 1])

\* C5 as stated: when three consecutive steps of an episode have strictly
\* decreasing errors, the second and the third each get the +0.1 bonus, the
\* first three steps after a reset() included.
C5_BonusOnSecondAndThird ==
    [][StepOk /\ StepOk' /\ C5_Decreasing(error_memory') =>
         /\ result'.reward = FAdd(BaseRewardOf[CurAngles'], F01)
         /\ result.reward = FAdd(BaseRewardOf[CurAngles], F01)]_vars

\* C5 as amended: when three consecutive steps of an episode have strictly
\* decreasing errors, each of them after the first that is the third or a
\* later step of its episode gets the +0.1 bonus; the second step of an
\* episode gets none.
C5_BonusFromThirdStep ==
    [][StepOk /\ StepOk' /\ C5_Decreasing(error_memory') =>
         /\ result'.reward = FAdd(BaseRewardOf[CurAngles'], F01)
         /\ result.reward = IF iteration_counter >= 3
                            THEN FAdd(BaseRewardOf[CurAngles], F01)
                            ELSE BaseRewardOf[CurAngles]]_vars

\* steps 2, 3 and 4 of an episode with strictly decreasing errors
C5_Witness == StepOk /\ iteration_counter = 4 /\ C5_Decreasing(error_memory)

\* C6: every step() that returns, returns done = false and an empty info
\* mapping.
C6_NeverDone == StepOk => result.done = FALSE /\ result.info = <<>>

\* the last step the bounds allow, on the centre cell
C6_Witness ==
    StepOk /\ epoch_counter = 1 /\ iteration_counter = 3 /\ AtCentre

\* C7: every reset() appends the angles it drew to each of the four
\* statistics sequences, which thus hold one entry per reset(); a step()
\* writes the angles it reached to the last entry of the final sequences and
\* changes no other entry and no length.
C7_Statistics ==
    [][/\ ResetOk' =>
            /\ init_pan_error' = Append(init_pan_error, PanAt(current_pan'))
            /\ init_tilt_error' = Append(init_tilt_error, TiltAt(current_tilt'))
            /\ final_pan_error' = Append(final_pan_error, PanAt(current_pan'))
            /\ final_tilt_error' = Append(final_tilt_error, TiltAt(current_tilt'))
            /\ Len(init_pan_error') = epoch_counter' + 1
       /\ result'.op = "step" =>
            /\ init_pan_error' = init_pan_error
            /\ init_tilt_error' = init_tilt_error
            /\ Len(final_pan_error') = Len(final_pan_error)
            /\ Len(final_tilt_error') = Len(final_tilt_error)
            /\ \A k \in 1..(Len(final_pan_error) - 1) :
                   /\ final_pan_error'[k] = final_pan_error[k]
                   /\ final_tilt_error'[k] = final_tilt_error[k]
       /\ StepOk' =>
            /\ final_pan_error'[Len(final_pan_error')] = PanAt(current_pan')
            /\ final_tilt_error'[Len(final_tilt_error')] = TiltAt(current_tilt')
       /\ result'.op = "step" /\ result'.status # "ok" =>
            /\ final_pan_error' = final_pan_error
            /\ final_tilt_error' = final_tilt_error]_vars

\* two episodes that both moved away from where they started
C7_Witness ==
    /\ StepOk /\ epoch_counter = 1
    /\ final_pan_error[1] # init_pan_error[1]
    /\ final_tilt_error[2] # init_tilt_error[2]

\* C8: step(a) with a outside 0..4 fails and leaves the environment state
\* unchanged.
C8_InvalidActionRejected ==
    [][result'.op = "step" /\ result'.action \notin 0..4 =>
         /\ result'.status \in {"AssertionError", "UnboundLocalError"}
         /\ UNCHANGED env]_vars

\* an invalid action after two steps of the second episode
C8_Witness ==
    /\ result.op = "step" /\ result.action = 5 /\ result.status = "AssertionError"
    /\ epoch_counter = 1 /\ iteration_counter = 2

\* C9: after every reset() and every step() that returned, the observation
\* held and returned is the lookup entry of the current person and
\* orientation minus the mean vector.
C9_ObservationCurrent ==
    ResetOk \/ StepOk =>
        /\ observation = [i \in 1..3 |->
               Image(current_person, CurAngles[1], CurAngles[2]).obs[i] - mean_vector[i]]
        /\ result.observation = observation

\* a step of the second episode that moved the camera
C9_Witness ==
    /\ StepOk /\ epoch_counter = 1 /\ result.action = 4
    /\ final_pan_error[2] # init_pan_error[2]

\* the error of a cell with the normalisers 60 and 90
C10_Expected ==
    [a \in Angles |-> FAdd(Sq(FDiv(FromInt(a[1]), FromInt(60))),
                           Sq(FDiv(FromInt(a[2]), FromInt(90))))]

\* C10: the error a step appends is (tilt/60)^2 + (pan/90)^2 for the
\* orientation reached, lies in [0, 2] and is 0 exactly on the centre cell;
\* there raw is 1.0 and the reward before shaping is exactly 1.0, which no
\* other cell gives.
C10_ErrorAndCentreReward ==
    StepOk =>
        LET e == error_memory[Len(error_memory)]
        IN  /\ e = C10_Expected[CurAngles]
            /\ FLeq(FZero, e) /\ FLeq(e, F2)
            /\ e = FZero <=> AtCentre
            /\ AtCentre => RawOf[CurAngles] = F1 /\ BaseRewardOf[CurAngles] = F1
            /\ BaseRewardOf[CurAngles] = F1 => AtCentre

\* action a pushes out of the grid from the cell (ti, pi)
C11_Pushes(a, ti, pi) ==
    \/ a = 1 /\ ti = 0
    \/ a = 2 /\ ti = 6
    \/ a = 3 /\ pi = 0
    \/ a = 4 /\ pi = 12

\* C11: step(1) at tilt index 0, step(2) at tilt index 6, step(3) at pan
\* index 0 and step(4) at pan index 12 leave both indices unchanged, and the
\* action still pushes out of the grid afterwards, so that repeating it any
\* number of times keeps the indices where the first clamp left them.
C11_BoundaryIdempotent ==
    [][/\ result'.op = "step" /\ result'.action \in 1..4 =>
            (C11_Pushes(result'.action, current_tilt, current_pan) =>
                /\ current_tilt' = current_tilt
                /\ current_pan' = current_pan
                /\ C11_Pushes(result'.action, current_tilt', current_pan'))
       /\ \A a \in 1..4 :
            LET once  == Move(a, current_tilt, current_pan)
                twice == Move(a, once[1], once[2])
            IN  C11_Pushes(a, current_tilt, current_pan) =>
                    once = <<current_tilt, current_pan>> /\ twice = once]_vars

\* three steps of an episode that started on the cell (6, 12) and never left
\* it, the last of them a step(2)
C11_Witness ==
    /\ StepOk /\ result.action = 2 /\ iteration_counter = 3
    /\ init_tilt_error[epoch_counter + 1] = 60
    /\ init_pan_error[epoch_counter + 1] = 90
    /\ current_tilt = 6 /\ current_pan = 12
    /\ error_memory[1] = error_memory[3] /\ error_memory[2] = error_memory[3]

\* C12: a step(a), a in 1..4, that returns with both indices unchanged (the
\* move was absorbed at a boundary) returns the observation and the reward
\* step(0) returns from the same state, and that reward is the reward before
\* shaping of the cell: no -0.15 penalty and no bonus is added.
C12_ClampedMoveIsStay ==
    [][/\ StepOk' /\ result'.action \in 1..4
       /\ current_tilt' = current_tilt /\ current_pan' = current_pan
       =>
       LET stay == Append(error_memory, ErrorOf[CurAngles])
       IN  /\ C11_Pushes(result'.action, current_tilt, current_pan)
           /\ result'.observation = Observe(current_person, CurAngles[1], CurAngles[2])
           /\ result'.reward = Shaped(BaseRewardOf[CurAngles], stay)
           /\ error_memory' = stay
           /\ result'.reward = BaseRewardOf[CurAngles]
           /\ result'.reward # FAdd(BaseRewardOf[CurAngles], FNeg015)]_vars

\* a third step of an episode that pushed down at tilt index 0, where the
\* second step had left the camera
C12_Witness ==
    /\ StepOk /\ result.action = 1 /\ current_tilt = 0
    /\ iteration_counter = 3 /\ error_memory[2] = error_memory[3]
    /\ result.reward = BaseRewardOf[CurAngles]

\* C13: render(), interactive or not, leaves the person, the indices, the
\* observation, the display image, the error sequence, the counters and the
\* statistics sequences unchanged; reset() and step() leave the windows alone
\* and what a step() returns is a function of the environment fields only,
\* so that interleaved render() calls change no state and no reward.
C13_RenderNoEffect ==
    [][/\ result'.op = "render" =>
            /\ UNCHANGED <<params, env>>
            /\ display' = Shown
            /\ result'.waitKey = IF interactive THEN 0 ELSE 1
       /\ result'.op \in {"reset", "step"} => display' = display
       /\ StepOk' =>
            /\ result'.observation = observation'
            /\ result'.reward = Shaped(BaseRewardOf[CurAngles'], error_memory')
       /\ ResetOk' => result'.observation = observation']_vars

\* an interactive render() after the third step of an episode, a step(4),
\* showing the frame and the texts of that step
C13_Witness ==
    /\ result.op = "render" /\ interactive /\ iteration_counter = 3
    /\ display = Shown
    /\ display[1][1] = render_observation
    /\ display[1][3][2] = "Right"

\* C14: in every state, from construction on, the current person is in
\* 20..29 when testing and in 0..19 otherwise; the two pools are disjoint,
\* the mode flag never changes, and the current person changes only in a
\* reset().
C14_PersonInPool ==
    /\ [](/\ current_person \in (IF testing THEN 20..29 ELSE 0..19)
          /\ TrainPool \cap TestPool = {}
          /\ Pool(testing) = (IF testing THEN 20..29 ELSE 0..19))
    /\ [][/\ testing' = testing
           /\ current_person' # current_person => result'.op = "reset"]_vars

\* a step of the second episode in testing mode, on the last person of the
\* testing pool
C14_Witness ==
    /\ StepOk /\ testing /\ epoch_counter = 1 /\ current_person = 29
    /\ observation[1] + mean_vector[1] = 29

\* the call just made was reset() or step(a), a in 0..4, and the dataset has
\* no entry for the person and the orientation it reached
C15_KeyMissed ==
    /\ \/ result'.op = "reset"
       \/ result'.op = "step" /\ result'.action \in 0..4
    /\ <<current_person', CurAngles'[1], CurAngles'[2]>> \in absent

\* the call just made returned nothing, and a call that returns an
\* observation returns the entry of the key it reached
C15_NothingStale ==
    /\ C15_KeyMissed =>
            /\ DOMAIN result' \cap {"observation", "reward", "done", "info"} = {}
            /\ observation' = observation
    /\ StepOk' \/ ResetOk' =>
            /\ <<current_person', CurAngles'[1], CurAngles'[2]>> \notin absent
            /\ result'.observation =
                   Observe(current_person', CurAngles'[1], CurAngles'[2])

\* C15 as stated: when the dataset has no entry for the person and the
\* orientation reached, reset() and step() fail with a missing-key error and
\* return nothing, never a stale or zero observation.
C15_MissingKeyFails ==
    [][/\ C15_KeyMissed => result'.status = "KeyError"
       /\ C15_NothingStale]_vars

\* C15 as amended: when the dataset has no entry for the person and the
\* orientation reached, reset() and step() fail and return nothing, never a
\* stale or zero observation; the failure is a missing-key error, except in
\* a step() called while no reset() has completed, which fails before the
\* lookup with an index error on the empty final-statistics sequences.
C15_MissingKeyOrIndexFails ==
    [][/\ C15_KeyMissed =>
            result'.status = IF result'.op = "step" /\ final_pan_error = <<>>
                             THEN "IndexError" ELSE "KeyError"
       /\ C15_NothingStale]_vars

\* a second step of an episode that moved to a cell the dataset has no image
\* of for the current person, and failed with a missing-key error
C15_Witness ==
    /\ result.op = "step" /\ result.status = "KeyError"
    /\ epoch_counter = 0 /\ iteration_counter = 1
    /\ <<current_person, CurAngles[1], CurAngles[2]>> \in absent
    /\ observation # Observe(current_person, CurAngles[1], CurAngles[2])

\* C16: a step(a) that returns changes the indices by action 0: nothing,
\* 1: tilt index -1, 2: tilt index +1, 3: pan index -1, 4: pan index +1, each
\* clamped to the grid; it writes only the last element of the two final
\* sequences and leaves the person, the episode counter, the initial
\* sequences, the four lengths and the final entries of earlier episodes
\* unchanged.
C16_StepFrame ==
    [][StepOk' =>
         LET a  == result'.action
             dt == current_tilt' - current_tilt
             dp == current_pan' - current_pan
             n  == Len(final_pan_error)
         IN  /\ a \in 0..4
             /\ a = 0 => dt = 0 /\ dp = 0
             /\ a = 1 => dp = 0 /\ dt = (IF current_tilt = 0 THEN 0 ELSE -1)
             /\ a = 2 => dp = 0 /\ dt = (IF current_tilt = 6 THEN 0 ELSE 1)
             /\ a = 3 => dt = 0 /\ dp = (IF current_pan = 0 THEN 0 ELSE -1)
             /\ a = 4 => dt = 0 /\ dp = (IF current_pan = 12 THEN 0 ELSE 1)
             /\ UNCHANGED <<current_person, epoch_counter, init_pan_error,
                            init_tilt_error>>
             /\ Len(final_pan_error') = n /\ Len(final_tilt_error') = n
             /\ Len(init_pan_error') = n /\ Len(init_tilt_error') = n
             /\ \A k \in 1..(n - 1) :
                    /\ final_pan_error'[k] = final_pan_error[k]
                    /\ final_tilt_error'[k] = final_tilt_error[k]
             /\ final_pan_error'[n] = pans[current_pan' + 1]
             /\ final_tilt_error'[n] = tilts[current_tilt' + 1]]_vars

\* the first step of the second episode, a step(3) that moved the pan index
\* down by one, the first episode having ended away from where it started
C16_Witness ==
    /\ StepOk /\ result.action = 3 /\ epoch_counter = 1 /\ iteration_counter = 1
    /\ final_pan_error[2] = init_pan_error[2] - 15
    /\ final_tilt_error[1] # init_tilt_error[1]

\* C17: after every reset() and every step() that returned, the step counter
\* equals the length of the error sequence (0 right after a reset()), and the
\* episode counter equals the length of each statistics sequence minus one;
\* it is -1 at construction.
C17_CountersMatchLengths ==
    /\ result.op = "init" => epoch_counter = -1 /\ iteration_counter = 0
    /\ ResetOk => iteration_counter = 0 /\ error_memory = <<>>
    /\ ResetOk \/ StepOk =>
          /\ iteration_counter = Len(error_memory)
          /\ epoch_counter = Len(init_pan_error) - 1
          /\ epoch_counter = Len(init_tilt_error) - 1
          /\ epoch_counter = Len(final_pan_error) - 1
          /\ epoch_counter = Len(final_tilt_error) - 1

\* C18: a step(a), a in 0..4, on an environment on which no reset() has been
\* called fails at the write to the last element of the empty final
\* sequences: it returns no reward and leaves the error sequence empty, the
\* step counter at 0 and the four statistics sequences empty, but the
\* indices and the two display texts are already those of the action.
C18_StepBeforeReset ==
    [][result'.op = "step" /\ result'.action \in 0..4 /\ epoch_counter = -1 =>
         LET a == result'.action
         IN  /\ result'.status = "IndexError"
             /\ DOMAIN result' \cap {"observation", "reward", "done", "info"} = {}
             /\ error_memory' = <<>> /\ iteration_counter' = 0
             /\ epoch_counter' = -1
             /\ init_pan_error' = <<>> /\ init_tilt_error' = <<>>
             /\ final_pan_error' = <<>> /\ final_tilt_error' = <<>>
             /\ observation' = <<0, 0, 0>> /\ render_observation' = <<0, 0, 0>>
             /\ current_tilt' = (IF a = 1 /\ current_tilt > 0 THEN current_tilt - 1
                                 ELSE IF a = 2 /\ current_tilt < 6 THEN current_tilt + 1
                                 ELSE current_tilt)
             /\ current_pan' = (IF a = 3 /\ current_pan > 0 THEN current_pan - 1
                                ELSE IF a = 4 /\ current_pan < 12 THEN current_pan + 1
                                ELSE current_pan)
             /\ current_state_text' = StateText(current_tilt', current_pan')
             /\ action_text' = ActionText(a)]_vars

\* a failed step(4) on a fresh environment that has moved the camera to the
\* cell (2, 3) and written both texts
C18_Witness ==
    /\ result.op = "step" /\ result.status = "IndexError" /\ result.action = 4
    /\ epoch_counter = -1 /\ final_pan_error = <<>>
    /\ current_tilt = 2 /\ current_pan = 3
    /\ action_text = "Right" /\ current_state_text = StateText(2, 3)

\* the number of positions between the cell (ti, pi) and the centre (3, 6)
C19_Dist(ti, pi) ==
    (IF ti < 3 THEN 3 - ti ELSE ti - 3) + (IF pi < 6 THEN 6 - pi ELSE pi - 6)

\* C19: on the third and every later step of an episode the reward is the
\* reward before shaping of the cell reached plus 0.1 exactly when the step
\* moved one index one position closer to the centre (3, 6), minus 0.15
\* exactly when it moved one index one position farther from it, and with
\* nothing added exactly when the indices did not change.
C19_BonusByDirection ==
    [][StepOk' /\ iteration_counter' >= 3 =>
         LET before == C19_Dist(current_tilt, current_pan)
             after  == C19_Dist(current_tilt', current_pan')
             base   == BaseRewardOf[CurAngles']
             same   == current_tilt' = current_tilt /\ current_pan' = current_pan
         IN  /\ after - before \in {-1, 0, 1}
             /\ same <=> after = before
             /\ after = before - 1 <=> result'.reward = FAdd(base, F01)
             /\ after = before + 1 <=> result'.reward = FAdd(base, FNeg015)
             /\ same <=> result'.reward = base]_vars

\* a fourth step that left the centre cell and was charged the penalty on
\* top of a positive reward
C19_Witness ==
    /\ StepOk /\ iteration_counter = 4
    /\ C19_Dist(current_tilt, current_pan) = 1
    /\ FLess(error_memory[3], error_memory[4])
    /\ FLess(FZero, BaseRewardOf[CurAngles])
    /\ result.reward = FAdd(BaseRewardOf[CurAngles], FNeg015)

F11 == Lit(11, 10)

\* C20: the reward of every step() lies in [-0.15, 1.1]; 1.1 is returned
\* only by a third or later step of an episode that arrives on the centre
\* cell from an adjacent cell, a step(0) that stays on the centre cell
\* returns exactly 1.0, and -0.15 is returned only by a third or later step
\* that moves away from the centre into a cell whose raw value is below 0.95.
C20_RewardRangeAndExtremes ==
    StepOk =>
        LET n == Len(error_memory)
        IN  /\ FLeq(FNeg015, result.reward) /\ FLeq(result.reward, F11)
            /\ result.reward = F11 =>
                  /\ n >= 3 /\ AtCentre
                  /\ FLess(error_memory[n], error_memory[n - 1])
            /\ result.action = 0 /\ AtCentre => result.reward = F1
            /\ result.reward = FNeg015 =>
                  /\ n >= 3 /\ FLess(error_memory[n - 1], error_memory[n])
                  /\ FLess(RawOf[CurAngles], F095)

=============================================================================
